---- MODULE Spec2Model ----
(***************************************************************************)
(* A model of the nfs-test probe service (src/main.go): the HTTP handlers  *)
(* /write-storage, /read-storage and /list with their response envelope,   *)
(* the sqlite write and read goroutines, and the signal / shutdown         *)
(* sequence of main.                                                       *)
(*                                                                         *)
(* Strings are sequences of tokens: "" is <<>>, and fmt.Sprintf with one   *)
(* %s verb is the concatenation of the format's prefix and the argument.   *)
(* A Go error is the sequence of the tokens of its text; nil is <<>>.      *)
(***************************************************************************)
EXTENDS Integers, Sequences, FiniteSets, TLC

\* ------------------------------------------------------------------ bounds

\* requests the HTTP front door receives in one run of SpecHttp
MaxReq == 2
\* distinct wall-clock readings of time.Now
MaxTime == 2
\* directory entries a listing returns at most
MaxFiles == 1
\* requests received in one run of Spec (the whole process)
MaxInFlight == 1
\* ticks of the write goroutine
MaxWriteTicks == 3
\* values rand.Intn draws (of its 1000)
RandN == 1
\* ticks of the write goroutine in one run of SpecRun
MaxRunTicks == 2

\* ------------------------------------------------------- values and strings

Nil == <<>>
EmptyString == <<>>

Times == 1..MaxTime

\* the underlying errors of the operating system and of the NFS client
OsErrors == {"permission denied", "input/output error"}
NfsErrors == {"connection refused", "NFS4ERR_NOENT"}

PodNames == {EmptyString, <<"pod-a">>}
StoragePaths == {EmptyString, <<"/mnt/ts">>}
QueryPaths == {EmptyString, <<"/data">>}

Endpoints == {"/write-storage", "/read-storage", "/list"}

\* the listings GetFileList can return: every sequence of at most MaxFiles
\* entries (the empty directory included)
FileNames == {"a.txt"}
Listings == UNION {[1..n -> FileNames] : n \in 0..MaxFiles}

\* time.Now().Format(time.RFC3339): the text of a clock reading
Format(t) == <<"2026-01-01T00:00:0", t, "Z">>

\* fmt.Sprintf(prefix + "%s", s) and fmt.Errorf(prefix + "%w", e)
Sprintf(prefix, s) == <<prefix>> \o s
Errorf(prefix, e) == <<prefix, e>>

ErrNoStoragePath == <<"no storage path set via STORAGE_PATH env variable">>
GenericError == <<"something went wrong">>

\* make(chan os.Signal, 1)
SigChCap == 1

StatusOK == 200
StatusInternalServerError == 500

VARIABLES
    \* configuration (package-level variables read from the environment)
    podNameEnv, storagePathEnv,
    \* the requests received so far, each with its handler's local state,
    \* its response struct and what its ResponseWriter has been sent
    reqs,
    \* the file at STORAGE_PATH
    file,
    \* number of NFS connections established so far
    nconn,
    \* the environment as main's checks see it (which values are set and parse)
    env,
    \* main's position, and the process's exit (exited, exitCode)
    mainPc, exited, exitCode,
    \* ctx of context.WithCancel: TRUE once cancel() has been called
    ctxDone,
    \* signal.Notify is in force; signals buffered in sigCh; the signal goroutine
    notified, sigCh, sigGo,
    \* the HTTP server and the goroutine running ListenAndServe
    srvState, srvGo,
    \* shutdownCtx of context.WithTimeout: TRUE once its 5 seconds are over
    shutdownCtxDone,
    \* the sqlite database: handle, table entries, sqlite_sequence
    dbState, entries, dbSeq,
    \* the write goroutine, its ticks so far, its successful ticks so far
    writePc, writeTicks, nWriteOK,
    \* the read goroutine, ticker.C, its last log record
    readPc, tickerC, lastRead

cfgVars == <<podNameEnv, storagePathEnv, env>>
httpVars == <<reqs, file, nconn>>
procVars == <<mainPc, exited, exitCode, ctxDone, notified, sigCh, sigGo,
              srvState, srvGo, shutdownCtxDone>>
dbVars == <<dbState, entries, dbSeq>>
loopVars == <<writePc, writeTicks, nWriteOK, readPc, tickerC, lastRead>>
vars == <<cfgVars, httpVars, procVars, dbVars, loopVars>>

\* what a handler leaves alone
otherVars == <<cfgVars, procVars, dbVars, loopVars>>

\* ---------------------------------------------------------------- response

\* &response{writer: w, logger: logger}: the zero envelope of a new request
NewRequest(ep, q) ==
    [ep |-> ep, query |-> q, pc |-> "start",
     err |-> Nil, Pod |-> EmptyString, Error |-> EmptyString,
     Message |-> EmptyString, Files |-> <<>>,
     contentType |-> EmptyString, status |-> 0, headerWrites |-> 0,
     bodyWrites |-> 0, body |-> <<>>, logged |-> <<>>,
     currentTime |-> EmptyString, path |-> EmptyString,
     conn |-> 0, listCalls |-> 0, ioCalls |-> 0, readOf |-> 0, ioFailed |-> FALSE,
     connCalls |-> 0, listed |-> <<>>]

\* the json struct tags of response: every exported field is omitempty
JsonKeys == {"pod", "error", "message", "files"}

FieldOf(r, k) ==
    CASE k = "pod" -> r.Pod
      [] k = "error" -> r.Error
      [] k = "message" -> r.Message
      [] k = "files" -> r.Files

EncodeJSON_noOmit(r) == [k \in JsonKeys |-> FieldOf(r, k)]

\* json.NewEncoder(w).Encode(r): an omitempty field is left out when it is
\* the empty string or a slice of length zero
EncodeJSON(r) ==
    LET present == {k \in JsonKeys : FieldOf(r, k) # <<>>}
    IN  [k \in present |-> FieldOf(r, k)]

\* http.ResponseWriter.WriteHeader: the first call fixes the status line
WriteHeader(r, code) ==
    [r EXCEPT !.status = IF r.headerWrites = 0 THEN code ELSE @,
              !.headerWrites = @ + 1]

handle_leak(r) ==
    LET r1 == [r EXCEPT !.contentType = <<"application/json">>,
                        !.Pod = podNameEnv]
        r2 == IF r1.err # Nil
              THEN WriteHeader([r1 EXCEPT !.Error = r1.err,
                                          !.logged = Append(@, r1.err)],
                               StatusInternalServerError)
              ELSE WriteHeader(r1, StatusOK)
    IN  [r2 EXCEPT !.body = EncodeJSON(r2), !.bodyWrites = @ + 1]

\* func (r *response) handle()
handle(r) ==
    LET r1 == [r EXCEPT !.contentType = <<"application/json">>,
                        !.Pod = podNameEnv]
        r2 == IF r1.err # Nil
              THEN WriteHeader([r1 EXCEPT !.Error = GenericError,
                                          !.logged = Append(@, r1.err)],
                               StatusInternalServerError)
              ELSE WriteHeader(r1, StatusOK)
    IN  [r2 EXCEPT !.body = EncodeJSON(r2), !.bodyWrites = @ + 1]

Return_noDefer(r) ==
    IF r.err # Nil THEN [r EXCEPT !.pc = "done"] ELSE [handle(r) EXCEPT !.pc = "done"]

\* a return of a handler: the deferred response.handle() runs
Return(r) == [handle(r) EXCEPT !.pc = "done"]

Running(i) == ~exited /\ i \in 1..Len(reqs)

SetReq(i, r) == reqs' = [reqs EXCEPT ![i] = r]

\* the HTTP server accepts a request and starts its handler
Arrive(ep, q) ==
    /\ ~exited /\ srvState = "listening"
    /\ Len(reqs) < MaxReq
    /\ ep # "/list" => q = EmptyString
    /\ reqs' = Append(reqs, NewRequest(ep, q))
    /\ UNCHANGED <<file, nconn, otherVars>>

\* ----------------------------------------------------------- /write-storage

StoragePathUnset_never == FALSE

\* storagePathEnv == ""
StoragePathUnset == storagePathEnv = EmptyString

WriteMessage_stale(currentTime) ==
    Sprintf("current time written to store: ", Format(1))

\* fmt.Sprintf("current time written to store: %s", currentTime)
WriteMessage(currentTime) == Sprintf("current time written to store: ", currentTime)

\* the handler up to os.WriteFile's open of the file with O_TRUNC
WriteStorageOpen(i) ==
    /\ Running(i)
    /\ reqs[i].ep = "/write-storage" /\ reqs[i].pc = "start"
    /\ LET r == reqs[i] IN
       IF StoragePathUnset
       THEN /\ SetReq(i, Return([r EXCEPT !.err = ErrNoStoragePath]))
            /\ UNCHANGED file
       ELSE \E t \in Times :
              LET rt == [r EXCEPT !.currentTime = Format(t), !.ioCalls = @ + 1] IN
              \/ \E e \in OsErrors :
                   /\ SetReq(i, Return([rt EXCEPT
                          !.err = Errorf("error writing to file: ", e),
                          !.ioFailed = TRUE]))
                   /\ UNCHANGED file
              \/ /\ SetReq(i, [rt EXCEPT !.pc = "write"])
                 /\ file' = [exists |-> TRUE, content |-> <<>>,
                             writer |-> i, complete |-> FALSE]
    /\ UNCHANGED <<nconn, otherVars>>

\* os.WriteFile's write of the data and the rest of the handler
WriteStorageWrite(i) ==
    /\ Running(i)
    /\ reqs[i].ep = "/write-storage" /\ reqs[i].pc = "write"
    /\ LET r == reqs[i] IN
       \/ \E e \in OsErrors :
            /\ SetReq(i, Return([r EXCEPT
                   !.err = Errorf("error writing to file: ", e),
                   !.ioFailed = TRUE]))
            /\ UNCHANGED file
       \/ /\ SetReq(i, Return([r EXCEPT !.Message = WriteMessage(r.currentTime)]))
          /\ file' = [exists |-> TRUE, content |-> r.currentTime,
                      writer |-> i, complete |-> TRUE]
    /\ UNCHANGED <<nconn, otherVars>>

\* ------------------------------------------------------------ /read-storage

\* fmt.Sprintf("last time written to store: %s", string(content))
ReadMessage(content) == Sprintf("last time written to store: ", content)

ReadStorage(i) ==
    /\ Running(i)
    /\ reqs[i].ep = "/read-storage" /\ reqs[i].pc = "start"
    /\ LET r == reqs[i] IN
       IF StoragePathUnset
       THEN SetReq(i, Return([r EXCEPT !.err = ErrNoStoragePath]))
       ELSE LET rt == [r EXCEPT !.ioCalls = @ + 1] IN
            \/ /\ file.exists
               /\ SetReq(i, Return([rt EXCEPT
                      !.Message = ReadMessage(file.content),
                      !.readOf = IF file.complete THEN file.writer ELSE 0]))
            \/ \E e \in (IF file.exists THEN OsErrors
                         ELSE {"no such file or directory"}) :
                 SetReq(i, Return([rt EXCEPT
                     !.err = Errorf("error reading from file: ", e),
                     !.ioFailed = TRUE]))
    /\ UNCHANGED <<file, nconn, otherVars>>

\* -------------------------------------------------------------------- /list

\* path := r.URL.Query().Get("path"); if path == "" { path = "/" }
ListPath(q) == IF q = EmptyString THEN <<"/">> ELSE q

ListConnect_shared(i) ==
    /\ Running(i)
    /\ reqs[i].ep = "/list" /\ reqs[i].pc = "start"
    /\ LET r == [reqs[i] EXCEPT !.connCalls = @ + 1] IN
       \/ \E e \in NfsErrors :
            /\ SetReq(i, Return([r EXCEPT
                   !.err = Errorf("error creating NFS client: ", e)]))
            /\ UNCHANGED nconn
       \/ /\ nconn' = 1
          /\ SetReq(i, [r EXCEPT !.conn = 1, !.pc = "connected",
                                 !.path = ListPath(r.query)])
    /\ UNCHANGED <<file, otherVars>>

\* the handler up to nfs4.NewNfsClient
ListConnect(i) ==
    /\ Running(i)
    /\ reqs[i].ep = "/list" /\ reqs[i].pc = "start"
    /\ LET r == [reqs[i] EXCEPT !.connCalls = @ + 1] IN
       \/ \E e \in NfsErrors :
            /\ SetReq(i, Return([r EXCEPT
                   !.err = Errorf("error creating NFS client: ", e)]))
            /\ UNCHANGED nconn
       \/ /\ nconn' = nconn + 1
          /\ SetReq(i, [r EXCEPT !.conn = nconn + 1, !.pc = "connected",
                                 !.path = ListPath(r.query)])
    /\ UNCHANGED <<file, otherVars>>

\* client.GetFileList(path) and the rest of the handler
ListGetFileList(i) ==
    /\ Running(i)
    /\ reqs[i].ep = "/list" /\ reqs[i].pc = "connected"
    /\ LET r == [reqs[i] EXCEPT !.listCalls = @ + 1] IN
       \/ \E e \in NfsErrors :
            SetReq(i, Return([r EXCEPT
                !.err = <<"Error reading dir ">> \o r.path \o <<": ", e>>]))
       \/ \E listed \in Listings :
            SetReq(i, Return([r EXCEPT !.Files = listed, !.listed = listed]))
    /\ UNCHANGED <<file, nconn, otherVars>>

\* ------------------------------------------------------------ main: startup

\* os.Exit(code); log.Fatal and log.Fatalf exit with status 1
Exit(code) == exited' = TRUE /\ exitCode' = code

Alive == ~exited

\* lines 48-79: the required variables are set, TIMEOUT, UID and GID parse
ConfigValid == env.server /\ env.timeoutOk /\ env.uidOk /\ env.gidOk

MainConfig ==
    /\ Alive /\ mainPc = "config"
    /\ IF ConfigValid
       THEN mainPc' = "notify" /\ UNCHANGED <<exited, exitCode>>
       ELSE mainPc' = "fatal" /\ Exit(1)
    /\ UNCHANGED <<ctxDone, notified, sigCh, sigGo, srvState, srvGo, shutdownCtxDone>>
    /\ UNCHANGED <<cfgVars, httpVars, dbVars, loopVars>>

\* lines 83-93: context.WithCancel, signal.Notify, the signal goroutine starts
MainNotify ==
    /\ Alive /\ mainPc = "notify"
    /\ mainPc' = "sqlite"
    /\ notified' = TRUE
    /\ sigGo' = "wait"
    /\ UNCHANGED <<exited, exitCode, ctxDone, sigCh, srvState, srvGo, shutdownCtxDone>>
    /\ UNCHANGED <<cfgVars, httpVars, dbVars, loopVars>>

SetupOutcomes_noParse == {"ok", "open error", "schema error"}

\* setupSqlite, lines 241-264: both intervals parse, sql.Open and the
\* CREATE TABLE IF NOT EXISTS succeed
SetupOutcomes ==
    IF env.readIntervalOk /\ env.writeIntervalOk
    THEN {"ok", "open error", "schema error"}
    ELSE {"interval error"}

\* lines 96-107 with setupSqlite: on success both goroutines are started and
\* closeDB is deferred; on an error log.Fatalf ends the process
MainSetupSqlite ==
    /\ Alive /\ mainPc = "sqlite"
    /\ IF ~env.sqlite
       THEN /\ mainPc' = "serve"
            /\ UNCHANGED <<exited, exitCode, dbState, writePc, readPc>>
       ELSE \E o \in SetupOutcomes :
              IF o = "ok"
              THEN /\ mainPc' = "serve"
                   /\ dbState' = "open"
                   /\ writePc' = "select"
                   /\ readPc' = "select"
                   /\ UNCHANGED <<exited, exitCode>>
              ELSE /\ mainPc' = "fatal"
                   /\ Exit(1)
                   /\ dbState' = IF o = "schema error" THEN "open" ELSE dbState
                   /\ UNCHANGED <<writePc, readPc>>
    /\ UNCHANGED <<ctxDone, notified, sigCh, sigGo, srvState, srvGo, shutdownCtxDone>>
    /\ UNCHANGED <<entries, dbSeq, writeTicks, nWriteOK, tickerC, lastRead>>
    /\ UNCHANGED <<cfgVars, httpVars>>

\* lines 109-193: the handlers are registered, the server is created and the
\* goroutine that runs ListenAndServe is started
MainServe ==
    /\ Alive /\ mainPc = "serve"
    /\ mainPc' = "wait"
    /\ srvGo' = "start"
    /\ UNCHANGED <<exited, exitCode, ctxDone, notified, sigCh, sigGo, srvState, shutdownCtxDone>>
    /\ UNCHANGED <<cfgVars, httpVars, dbVars, loopVars>>

\* ------------------------------------------------------ signals and serving

cancel_toggle == ctxDone' = ~ctxDone

\* cancel(): the context is done from the first call on
cancel == ctxDone' = TRUE

\* the operating system delivers SIGTERM or SIGINT: before signal.Notify the
\* default action ends the process; after it the signal goes to sigCh
\* (capacity 1), and a signal that finds the channel full is dropped
SendSignal ==
    /\ Alive
    /\ IF notified
       THEN /\ sigCh < SigChCap
            /\ sigCh' = sigCh + 1
            /\ UNCHANGED <<exited, exitCode>>
       ELSE /\ Exit(143)
            /\ UNCHANGED sigCh
    /\ UNCHANGED <<mainPc, ctxDone, notified, sigGo, srvState, srvGo, shutdownCtxDone>>
    /\ UNCHANGED <<cfgVars, httpVars, dbVars, loopVars>>

\* lines 89-93: <-sigCh; logger.Info; cancel()
SignalGoroutine ==
    /\ Alive /\ sigGo = "wait" /\ sigCh > 0
    /\ sigCh' = sigCh - 1
    /\ sigGo' = "done"
    /\ cancel
    /\ UNCHANGED <<mainPc, exited, exitCode, notified, srvState, srvGo, shutdownCtxDone>>
    /\ UNCHANGED <<cfgVars, httpVars, dbVars, loopVars>>

\* lines 187-193, srv.ListenAndServe starts: after Shutdown it returns
\* ErrServerClosed at once; a bind error is logged and cancel() is called
ServeListen ==
    /\ Alive /\ srvGo = "start"
    /\ IF srvState = "closed"
       THEN srvGo' = "done" /\ UNCHANGED <<srvState, ctxDone>>
       ELSE \/ srvState' = "listening" /\ srvGo' = "serving" /\ UNCHANGED ctxDone
            \/ srvState' = "failed" /\ srvGo' = "done" /\ cancel
    /\ UNCHANGED <<mainPc, exited, exitCode, notified, sigCh, sigGo, shutdownCtxDone>>
    /\ UNCHANGED <<cfgVars, httpVars, dbVars, loopVars>>

\* srv.ListenAndServe returns while serving: ErrServerClosed after Shutdown,
\* or an accept error, which is logged and followed by cancel()
ServeReturn ==
    /\ Alive /\ srvGo = "serving"
    /\ IF srvState = "closed"
       THEN srvGo' = "done" /\ UNCHANGED <<srvState, ctxDone>>
       ELSE srvState' = "failed" /\ srvGo' = "done" /\ cancel
    /\ UNCHANGED <<mainPc, exited, exitCode, notified, sigCh, sigGo, shutdownCtxDone>>
    /\ UNCHANGED <<cfgVars, httpVars, dbVars, loopVars>>

\* ----------------------------------------------------------- main: shutdown

\* the handlers that have not returned
InFlight == {i \in 1..Len(reqs) : reqs[i].pc # "done"}

MainCtxDone_closesDB ==
    /\ Alive /\ mainPc = "wait" /\ ctxDone
    /\ mainPc' = "shutdown"
    /\ srvState' = IF srvState = "failed" THEN srvState ELSE "closed"
    /\ dbState' = IF dbState = "open" THEN "closed" ELSE dbState
    /\ UNCHANGED <<exited, exitCode, ctxDone, notified, sigCh, sigGo, srvGo, shutdownCtxDone>>
    /\ UNCHANGED <<entries, dbSeq>>
    /\ UNCHANGED <<cfgVars, httpVars, loopVars>>

\* lines 196-201: <-ctx.Done() returns; srv.Shutdown closes the listener (a
\* server whose ListenAndServe has returned an error has none to close)
MainCtxDone ==
    /\ Alive /\ mainPc = "wait" /\ ctxDone
    /\ mainPc' = "shutdown"
    /\ srvState' = IF srvState = "failed" THEN srvState ELSE "closed"
    /\ UNCHANGED <<exited, exitCode, ctxDone, notified, sigCh, sigGo, srvGo, shutdownCtxDone>>
    /\ UNCHANGED <<cfgVars, httpVars, dbVars, loopVars>>

\* the timer of context.WithTimeout(context.Background(), 5*time.Second)
\* fires: shutdownCtx is done
ShutdownTimeout ==
    /\ Alive /\ mainPc = "shutdown" /\ ~shutdownCtxDone
    /\ shutdownCtxDone' = TRUE
    /\ UNCHANGED <<mainPc, exited, exitCode, ctxDone, notified, sigCh, sigGo,
                   srvState, srvGo>>
    /\ UNCHANGED <<cfgVars, httpVars, dbVars, loopVars>>

ShutdownReturns_ignoresCtx == InFlight = {}

\* srv.Shutdown(shutdownCtx) returns: nil once no handler is in flight, the
\* context's error once shutdownCtx is done
ShutdownReturns == InFlight = {} \/ shutdownCtxDone

\* line 201-205: srv.Shutdown has returned
MainShutdown ==
    /\ Alive /\ mainPc = "shutdown"
    /\ ShutdownReturns
    /\ mainPc' = "deferred"
    /\ UNCHANGED <<exited, exitCode, ctxDone, notified, sigCh, sigGo, srvState, srvGo, shutdownCtxDone>>
    /\ UNCHANGED <<cfgVars, httpVars, dbVars, loopVars>>

\* line 206, main returns: the deferred shutdownCancel, closeDB (lines
\* 102-106) and cancel run
MainDeferred ==
    /\ Alive /\ mainPc = "deferred"
    /\ mainPc' = "return"
    /\ dbState' = IF dbState = "open" THEN "closed" ELSE dbState
    /\ cancel
    /\ UNCHANGED <<exited, exitCode, notified, sigCh, sigGo, srvState, srvGo, shutdownCtxDone>>
    /\ UNCHANGED <<entries, dbSeq>>
    /\ UNCHANGED <<cfgVars, httpVars, loopVars>>

\* main has returned: the process exits with status 0
MainExit ==
    /\ Alive /\ mainPc = "return"
    /\ mainPc' = "exit"
    /\ Exit(0)
    /\ UNCHANGED <<ctxDone, notified, sigCh, sigGo, srvState, srvGo, shutdownCtxDone>>
    /\ UNCHANGED <<cfgVars, httpVars, dbVars, loopVars>>

\* ------------------------------------------------------------ the database

\* fmt.Sprintf("rand=%d", rand.Intn(1000)), with RandN drawn values
Payloads == {<<"rand=", n>> : n \in 0..(RandN - 1)}

\* datetime('now'): the text of the store's clock reading
Datetime(t) == <<"2026-01-01 00:00:0", t>>

MaxId(rows) == IF rows = <<>> THEN 0 ELSE rows[Len(rows)].id

NextId_reuse(rows, seq) == Len(rows)

\* id INTEGER PRIMARY KEY AUTOINCREMENT: one more than the largest id the
\* table has ever held (sqlite_sequence), never a reused one
NextId(rows, seq) == (IF seq > MaxId(rows) THEN seq ELSE MaxId(rows)) + 1

Insert_replace(rows, seq, pod, t, p) ==
    <<[id |-> NextId(rows, seq), pod |-> pod, ts |-> Datetime(t), payload |-> p]>>

\* INSERT INTO entries (pod, ts, payload) VALUES (?, datetime('now'), ?),
\* run at the store's clock reading t
Insert(rows, seq, pod, t, p) ==
    Append(rows, [id |-> NextId(rows, seq), pod |-> pod, ts |-> Datetime(t), payload |-> p])

\* the row of ORDER BY id DESC LIMIT 1
LastRow_first(rows) == rows[1]

LastRow(rows) ==
    CHOOSE r \in {rows[k] : k \in 1..Len(rows)} :
        \A k \in 1..Len(rows) : rows[k].id <= r.id

\* SELECT COUNT(*), (SELECT pod ...), (SELECT ts ...), (SELECT payload ...):
\* the count and the last row's columns; with no row the three are NULL
QueryRow(rows) ==
    IF rows = <<>>
    THEN [count |-> 0, null |-> TRUE, lastPod |-> <<>>, lastTS |-> <<>>, lastPayload |-> <<>>]
    ELSE [count |-> Len(rows), null |-> FALSE, lastPod |-> LastRow(rows).pod,
          lastTS |-> LastRow(rows).ts, lastPayload |-> LastRow(rows).payload]

\* what the database held when the process started: nothing, a row of an
\* earlier run, or an empty table whose rows were removed
OldRow == [id |-> 1, pod |-> <<"pod-old">>, ts |-> Datetime(1), payload |-> <<"rand=", 0>>]
InitialStores == {<<<<>>, 0>>, <<<<OldRow>>, 1>>, <<<<>>, 1>>}

\* ------------------------------------------------------ the write goroutine

\* lines 268-272, the select: ctx.Done() is taken when the context is done,
\* the default branch otherwise, which goes on to db.Exec
WriteSelect ==
    /\ Alive /\ writePc = "select"
    /\ IF ctxDone
       THEN writePc' = "exit" /\ UNCHANGED writeTicks
       ELSE /\ writeTicks < MaxWriteTicks
            /\ writePc' = "insert"
            /\ writeTicks' = writeTicks + 1
    /\ UNCHANGED <<nWriteOK, readPc, tickerC, lastRead>>
    /\ UNCHANGED <<cfgVars, httpVars, procVars, dbVars>>

\* lines 273-280, db.Exec of the drawn payload returns: the row is in the
\* table, or an error is logged (always so on a closed handle). The store's
\* clock reads one value per tick of the cycle.
WriteExec ==
    /\ Alive /\ writePc = "insert"
    /\ writePc' = "sleep"
    /\ \/ /\ dbState = "open"
          /\ \E p \in Payloads :
               /\ entries' = Insert(entries, dbSeq, podNameEnv, writeTicks, p)
               /\ dbSeq' = NextId(entries, dbSeq)
          /\ nWriteOK' = nWriteOK + 1
       \/ UNCHANGED <<entries, dbSeq, nWriteOK>>
    /\ UNCHANGED <<dbState, writeTicks, readPc, tickerC, lastRead>>
    /\ UNCHANGED <<cfgVars, httpVars, procVars>>

\* line 281: time.Sleep(sqliteWriteInterval) is over
WriteSleep ==
    /\ Alive /\ writePc = "sleep"
    /\ writePc' = "select"
    /\ UNCHANGED <<writeTicks, nWriteOK, readPc, tickerC, lastRead>>
    /\ UNCHANGED <<cfgVars, httpVars, procVars, dbVars>>

\* ------------------------------------------------------- the read goroutine

\* the ticker of time.NewTicker sends on ticker.C (capacity 1); a tick that
\* finds the channel full is dropped
TickerFire ==
    /\ Alive /\ readPc \in {"select", "query"}
    /\ ~tickerC
    /\ tickerC' = TRUE
    /\ UNCHANGED <<writePc, writeTicks, nWriteOK, readPc, lastRead>>
    /\ UNCHANGED <<cfgVars, httpVars, procVars, dbVars>>

\* lines 291-294: the cases of the select that can proceed; with more than
\* one, Go chooses among them at random
ReadSelectCases ==
    (IF ctxDone THEN {"done"} ELSE {}) \cup (IF tickerC THEN {"tick"} ELSE {})

ReadSelect ==
    /\ Alive /\ readPc = "select"
    /\ \E c \in ReadSelectCases :
         IF c = "done"
         THEN readPc' = "exit" /\ UNCHANGED tickerC
         ELSE readPc' = "query" /\ tickerC' = FALSE
    /\ UNCHANGED <<writePc, writeTicks, nWriteOK, lastRead>>
    /\ UNCHANGED <<cfgVars, httpVars, procVars, dbVars>>

ReadQuery_stops ==
    /\ Alive /\ readPc = "query"
    /\ \/ /\ dbState = "open" /\ ~QueryRow(entries).null
          /\ readPc' = "select"
          /\ lastRead' = [kind |-> "successful read",
                          count |-> QueryRow(entries).count,
                          lastPod |-> QueryRow(entries).lastPod,
                          lastTimestamp |-> QueryRow(entries).lastTS,
                          lastPayload |-> QueryRow(entries).lastPayload,
                          writes |-> nWriteOK]
       \/ /\ readPc' = "exit"
          /\ lastRead' = [kind |-> "read error", count |-> 0, lastPod |-> <<>>,
                          lastTimestamp |-> <<>>, lastPayload |-> <<>>,
                          writes |-> nWriteOK]
    /\ UNCHANGED <<writePc, writeTicks, nWriteOK, tickerC>>
    /\ UNCHANGED <<cfgVars, httpVars, procVars, dbVars>>

ScanFails_never(row) == FALSE

\* rows.Scan into (int, string, string, string): a NULL column cannot be
\* stored in a string
ScanFails(row) == row.null

\* lines 297-304, db.QueryRow(...).Scan returns: the aggregate is logged, or
\* a read error (always so on a closed handle, and when Scan fails)
ReadQuery ==
    /\ Alive /\ readPc = "query"
    /\ readPc' = "select"
    /\ \/ /\ dbState = "open" /\ ~ScanFails(QueryRow(entries))
          /\ lastRead' = [kind |-> "successful read",
                          count |-> QueryRow(entries).count,
                          lastPod |-> QueryRow(entries).lastPod,
                          lastTimestamp |-> QueryRow(entries).lastTS,
                          lastPayload |-> QueryRow(entries).lastPayload,
                          writes |-> nWriteOK]
       \/ lastRead' = [kind |-> "read error", count |-> 0, lastPod |-> <<>>,
                       lastTimestamp |-> <<>>, lastPayload |-> <<>>,
                       writes |-> nWriteOK]
    /\ UNCHANGED <<writePc, writeTicks, nWriteOK, tickerC>>
    /\ UNCHANGED <<cfgVars, httpVars, procVars, dbVars>>

NoRead == [kind |-> "none", count |-> 0, lastPod |-> <<>>, lastTimestamp |-> <<>>,
           lastPayload |-> <<>>, writes |-> 0]

\* --------------------------------------------------------- specifications

NoFile == [exists |-> FALSE, content |-> <<>>, writer |-> 0, complete |-> FALSE]
OldFile == [exists |-> TRUE, content |-> Format(1), writer |-> 0, complete |-> TRUE]

Envs == [server : BOOLEAN, timeoutOk : BOOLEAN, uidOk : BOOLEAN, gidOk : BOOLEAN,
         sqlite : BOOLEAN, readIntervalOk : BOOLEAN, writeIntervalOk : BOOLEAN]

\* the stores a run can start on: without SQLITE_STORAGE_PATH there is none
StoresOf(e) == IF e.sqlite THEN InitialStores ELSE {<<<<>>, 0>>}

ValidEnv == [server |-> TRUE, timeoutOk |-> TRUE, uidOk |-> TRUE, gidOk |-> TRUE,
             sqlite |-> FALSE, readIntervalOk |-> TRUE, writeIntervalOk |-> TRUE]

InitCommon ==
    /\ reqs = <<>> /\ nconn = 0
    /\ exited = FALSE /\ exitCode = 0
    /\ ctxDone = FALSE /\ sigCh = 0
    /\ shutdownCtxDone = FALSE
    /\ dbState = "none"
    /\ writePc = "off" /\ writeTicks = 0 /\ nWriteOK = 0
    /\ readPc = "off" /\ tickerC = FALSE /\ lastRead = NoRead

\* the process starts: main has yet to look at the environment
Init ==
    /\ InitCommon
    /\ podNameEnv = <<"pod-a">>
    /\ storagePathEnv = EmptyString
    /\ file = NoFile
    /\ env \in Envs
    /\ mainPc = "config" /\ notified = FALSE /\ sigGo = "off"
    /\ srvState = "new" /\ srvGo = "off"
    /\ \E s \in StoresOf(env) : entries = s[1] /\ dbSeq = s[2]

\* a request arrives while fewer than MaxInFlight requests have been received
ArriveLife(ep, q) == Len(reqs) < MaxInFlight /\ Arrive(ep, q)

Handlers ==
    \/ \E i \in 1..MaxReq : WriteStorageOpen(i)
    \/ \E i \in 1..MaxReq : WriteStorageWrite(i)
    \/ \E i \in 1..MaxReq : ReadStorage(i)
    \/ \E i \in 1..MaxReq : ListConnect(i)
    \/ \E i \in 1..MaxReq : ListGetFileList(i)

Lifecycle ==
    \/ MainConfig \/ MainNotify \/ MainSetupSqlite \/ MainServe
    \/ SendSignal \/ SignalGoroutine \/ ServeListen \/ ServeReturn
    \/ MainCtxDone \/ ShutdownTimeout \/ MainShutdown \/ MainDeferred \/ MainExit

Loops ==
    \/ WriteSelect \/ WriteExec \/ WriteSleep
    \/ TickerFire \/ ReadSelect \/ ReadQuery

ListRequests ==
    \/ \E q \in QueryPaths : ArriveLife("/list", q)
    \/ \E i \in 1..MaxInFlight : ListConnect(i)
    \/ \E i \in 1..MaxInFlight : ListGetFileList(i)

\* the whole process, from its start, with the sqlite goroutines
NextProbe == Lifecycle \/ Loops

SpecProbe == Init /\ [][NextProbe]_vars

\* the whole process, from its start, with requests to /list in flight
Next == Lifecycle \/ Loops \/ ListRequests

Spec == Init /\ [][Next]_vars

\* the whole process with requests to /list, the goroutines of setupSqlite
\* started and waiting
NextServe == Lifecycle \/ ListRequests

SpecServe == Init /\ [][NextServe]_vars

\* the Go scheduler runs every goroutine that can run, and timers fire
Fairness ==
    /\ WF_vars(SignalGoroutine)
    /\ WF_vars(MainCtxDone) /\ WF_vars(ShutdownTimeout) /\ WF_vars(MainShutdown)
    /\ WF_vars(MainDeferred) /\ WF_vars(MainExit)

FairSpec == Spec /\ Fairness

FairServe == SpecServe /\ Fairness

\* the server of a valid configuration without SQLITE_STORAGE_PATH is
\* serving; the storage file is absent or holds what an earlier run left
InitHttp ==
    /\ InitCommon
    /\ podNameEnv \in PodNames
    /\ storagePathEnv \in StoragePaths
    /\ file \in {NoFile, OldFile}
    /\ env = ValidEnv
    /\ mainPc = "wait" /\ notified = TRUE /\ sigGo = "wait"
    /\ srvState = "listening" /\ srvGo = "serving"
    /\ entries = <<>> /\ dbSeq = 0

NextHttp ==
    \/ \E ep \in Endpoints, q \in QueryPaths : Arrive(ep, q)
    \/ Handlers

SpecHttp == InitHttp /\ [][NextHttp]_vars

\* a valid configuration with SQLITE_STORAGE_PATH set
RunEnv == [ValidEnv EXCEPT !.sqlite = TRUE]

\* the process is Running: main has started the cycles on an opened store
\* and waits on the context, the listener is bound, STORAGE_PATH is set
InitRun ==
    /\ reqs = <<>> /\ nconn = 0
    /\ exited = FALSE /\ exitCode = 0
    /\ ctxDone = FALSE /\ sigCh = 0
    /\ shutdownCtxDone = FALSE
    /\ podNameEnv = <<"pod-a">>
    /\ storagePathEnv = <<"/mnt/ts">>
    /\ file = NoFile
    /\ env = RunEnv
    /\ mainPc = "wait" /\ notified = TRUE /\ sigGo = "wait"
    /\ srvState = "listening" /\ srvGo = "serving"
    /\ dbState = "open"
    /\ \E s \in {<<<<>>, 0>>, <<<<OldRow>>, 1>>} : entries = s[1] /\ dbSeq = s[2]
    /\ writePc = "select" /\ writeTicks = 0 /\ nWriteOK = 0
    /\ readPc = "select" /\ tickerC = FALSE /\ lastRead = NoRead

\* the write goroutine's select while it has begun fewer than MaxRunTicks ticks
WriteSelectRun == (ctxDone \/ writeTicks < MaxRunTicks) /\ WriteSelect

\* the process from Running on: the cycles, requests to every endpoint, the
\* signal, the listener's failure and the shutdown sequence
NextRun ==
    \/ \E ep \in Endpoints, q \in QueryPaths : ArriveLife(ep, q)
    \/ \E i \in 1..MaxInFlight : WriteStorageOpen(i)
    \/ \E i \in 1..MaxInFlight : WriteStorageWrite(i)
    \/ \E i \in 1..MaxInFlight : ReadStorage(i)
    \/ \E i \in 1..MaxInFlight : ListConnect(i)
    \/ \E i \in 1..MaxInFlight : ListGetFileList(i)
    \/ WriteSelectRun \/ WriteExec \/ WriteSleep
    \/ TickerFire \/ ReadSelect \/ ReadQuery
    \/ SendSignal \/ SignalGoroutine \/ ServeReturn
    \/ MainCtxDone \/ ShutdownTimeout \/ MainShutdown \/ MainDeferred \/ MainExit

SpecRun == InitRun /\ [][NextRun]_vars

\* ------------------------------------------------------------------ claims

Done == {i \in 1..Len(reqs) : reqs[i].pc = "done"}
Failed == {i \in Done : reqs[i].err # Nil}
StorageEndpoints == {"/write-storage", "/read-storage"}

\* C1: every request is finalized exactly once, on every return path of its
\* handler: a handler that has returned has sent one status line and one
\* body, a handler that has not has sent nothing, and the status is 500 if
\* and only if the handler recorded an error and 200 otherwise.
C1_FinalizedOnce ==
    \A i \in 1..Len(reqs) :
        LET r == reqs[i] IN
        /\ r.pc = "done" => r.headerWrites = 1 /\ r.bodyWrites = 1
        /\ r.pc # "done" => r.headerWrites = 0 /\ r.bodyWrites = 0 /\ r.status = 0
        /\ r.pc = "done" =>
              /\ r.status \in {StatusOK, StatusInternalServerError}
              /\ r.status = StatusInternalServerError <=> r.err # Nil
              /\ r.status = StatusOK <=> r.err = Nil
              /\ r.contentType = <<"application/json">>

\* an early error return and a normal return have both been finalized
C1_Witness ==
    \E i, j \in Done :
        /\ reqs[i].err = ErrNoStoragePath /\ reqs[i].status = StatusInternalServerError
        /\ reqs[j].ep = "/list" /\ reqs[j].status = StatusOK

\* C2: internal error detail never reaches the caller: every failing request
\* gets status 500 and a body whose error field is the fixed generic string
\* and none of whose fields is the underlying error; two failing requests to
\* the same endpoint get the same status and the same body whatever their
\* underlying errors; the underlying error is what the server logs.
C2_NoErrorLeak ==
    /\ \A i \in Failed :
          LET r == reqs[i] IN
          /\ r.status = StatusInternalServerError
          /\ "error" \in DOMAIN r.body /\ r.body["error"] = GenericError
          /\ \A k \in DOMAIN r.body : r.body[k] # r.err
          /\ DOMAIN r.body \subseteq {"pod", "error"}
          /\ r.logged = <<r.err>>
    /\ \A i, j \in Failed :
          reqs[i].ep = reqs[j].ep =>
              reqs[i].status = reqs[j].status /\ reqs[i].body = reqs[j].body
    /\ \A i \in Done \ Failed : reqs[i].logged = <<>>

\* two requests to one endpoint have failed with different underlying errors
C2_Witness ==
    \E i, j \in Failed :
        /\ reqs[i].ep = reqs[j].ep
        /\ reqs[i].err # reqs[j].err
        /\ reqs[i].logged # reqs[j].logged

\* C3: in every envelope sent exactly one of {error, message or files} is
\* populated: a 500 body has the error and neither message nor files, a 200
\* body has a message or a file list and no error.
C3_ExactlyOnePopulated ==
    \A i \in Done :
        LET b == reqs[i].body IN
        /\ reqs[i].status = StatusInternalServerError =>
              "error" \in DOMAIN b /\ "message" \notin DOMAIN b /\ "files" \notin DOMAIN b
        /\ reqs[i].status = StatusOK =>
              "error" \notin DOMAIN b /\ ("message" \in DOMAIN b \/ "files" \in DOMAIN b)

\* C4 as stated: the body always has the pod field, also for an empty label.
C4_PodAlwaysPresent ==
    \A i \in Done : "pod" \in DOMAIN reqs[i].body

\* C4, amended: the body has the pod field exactly when the configured label
\* is not empty, and then the field is the label; with POD_NAME unset a
\* failed GET /list?path=/data has status 500 and a body of the one field
\* error = "something went wrong".
C4_PodOmittedWhenEmpty ==
    \A i \in Done :
        LET r == reqs[i] IN
        /\ "pod" \in DOMAIN r.body <=> podNameEnv # EmptyString
        /\ "pod" \in DOMAIN r.body => r.body["pod"] = podNameEnv
        /\ (podNameEnv = EmptyString /\ r.ep = "/list" /\ r.query = <<"/data">>
              /\ r.err # Nil) =>
              /\ r.status = StatusInternalServerError
              /\ r.body = [error |-> GenericError]

\* POD_NAME is unset and GET /list?path=/data could not connect
C4_Witness ==
    \E i \in Done :
        /\ podNameEnv = EmptyString
        /\ reqs[i].ep = "/list" /\ reqs[i].query = <<"/data">>
        /\ reqs[i].conn = 0 /\ reqs[i].err # Nil

\* C5: a /read-storage whose read succeeds on the file as a completed
\* /write-storage left it (no later write has touched the file) returns 200
\* with a message that holds exactly the timestamp that write wrote, which is
\* the timestamp the write reported in its own message.
C5_ReadReturnsWritten ==
    \A i \in Done :
        LET r == reqs[i] IN
        (r.ep = "/read-storage" /\ r.readOf # 0) =>
            LET w == reqs[r.readOf] IN
            /\ w.pc = "done" /\ w.status = StatusOK
            /\ r.status = StatusOK
            /\ "message" \in DOMAIN r.body /\ "message" \in DOMAIN w.body
            /\ Head(r.body["message"]) = "last time written to store: "
            /\ Head(w.body["message"]) = "current time written to store: "
            /\ Tail(r.body["message"]) = w.currentTime
            /\ Tail(w.body["message"]) = w.currentTime

\* a read has returned what an earlier write of this run wrote, a timestamp
\* other than the one the file held before
C5_Witness ==
    \E i \in Done :
        /\ reqs[i].ep = "/read-storage" /\ reqs[i].readOf # 0
        /\ reqs[i].readOf < i
        /\ Tail(reqs[i].Message) = Format(2)

\* C6: with STORAGE_PATH unset every /write-storage and /read-storage
\* returns 500 with the generic error, records the "no storage path set"
\* error, and reads and writes no file, whatever came before it.
C6_NoStoragePath ==
    storagePathEnv = EmptyString =>
        /\ file.writer = 0 /\ file \in {NoFile, OldFile}
        /\ \A i \in 1..Len(reqs) :
              LET r == reqs[i] IN
              r.ep \in StorageEndpoints =>
                  /\ r.pc \in {"start", "done"}
                  /\ r.ioCalls = 0
                  /\ r.pc = "done" =>
                        /\ r.status = StatusInternalServerError
                        /\ r.err = ErrNoStoragePath
                        /\ r.logged = <<ErrNoStoragePath>>
                        /\ "error" \in DOMAIN r.body /\ r.body["error"] = GenericError
                        /\ "message" \notin DOMAIN r.body

\* with STORAGE_PATH unset a read and then a write have both returned
C6_Witness ==
    /\ storagePathEnv = EmptyString
    /\ Len(reqs) >= 2
    /\ reqs[1].ep = "/read-storage" /\ reqs[1].pc = "done"
    /\ reqs[2].ep = "/write-storage" /\ reqs[2].pc = "done"

\* the records the store held when the process started
Store0 == Len(entries) - nWriteOK

\* C7: the identifiers of the Probe Records are strictly increasing in the
\* order of the table, no identifier exceeds the store's high-water mark (so
\* the next one is greater than every identifier used before), and the
\* records of this process are in the order of the ticks that wrote them.
C7_IdsIncreasing ==
    /\ \A k \in 1..(Len(entries) - 1) : entries[k].id < entries[k + 1].id
    /\ \A k \in 1..Len(entries) : entries[k].id <= dbSeq
    /\ \A k, l \in (Store0 + 1)..Len(entries) :
          k < l => entries[k].ts[2] < entries[l].ts[2]
    /\ \A k \in (Store0 + 1)..Len(entries) : entries[k].pod = podNameEnv

\* two ticks have succeeded with a failed tick and a read tick in the run
C7_Witness ==
    /\ nWriteOK = 2 /\ writeTicks = 3 /\ writePc = "sleep"
    /\ lastRead.kind # "none"
    /\ Len(entries) = 3

\* C8 as stated: an aggregate logged after N >= 1 successful ticks has the
\* count N and the fields of the Nth written record.
C8_CountEqualsN ==
    (lastRead.kind = "successful read" /\ lastRead.writes >= 1) =>
        /\ lastRead.count = lastRead.writes
        /\ lastRead.lastPod = entries[Store0 + lastRead.writes].pod
        /\ lastRead.lastTimestamp = entries[Store0 + lastRead.writes].ts
        /\ lastRead.lastPayload = entries[Store0 + lastRead.writes].payload

\* C8, amended: a logged aggregate's count is N, the successful ticks before
\* the query, plus the records the store held at the start, and its most
\* recent fields are those of the newest record of that moment (the Nth
\* written one when N >= 1).
C8_CountAndLast ==
    lastRead.kind = "successful read" =>
        /\ lastRead.count = lastRead.writes + Store0
        /\ lastRead.count \in 1..Len(entries)
        /\ lastRead.lastPod = entries[lastRead.count].pod
        /\ lastRead.lastTimestamp = entries[lastRead.count].ts
        /\ lastRead.lastPayload = entries[lastRead.count].payload
        /\ lastRead.writes >= 1 => lastRead.lastPod = podNameEnv

\* an aggregate was logged after two successful ticks on a store that had a
\* record of an earlier run
C8_Witness ==
    /\ lastRead.kind = "successful read"
    /\ lastRead.writes = 2 /\ lastRead.count = 3

\* C9: once the signal goroutine has cancelled the context neither cycle
\* begins a new tick: the write cycle's select does not go on to an insert
\* and the read cycle's select does not go on to a query.
C9_NoTickAfterCancel ==
    [][(ctxDone /\ sigGo = "done") =>
          /\ ~(writePc = "select" /\ writePc' = "insert")
          /\ ~(readPc = "select" /\ readPc' = "query")]_vars

\* C10: a termination signal received while main waits on the context leads
\* to the exit of the process with status 0.
C10_EventuallyStopped ==
    (Alive /\ mainPc = "wait" /\ sigCh > 0) ~> (exited /\ exitCode = 0)

\* the process has exited with status 0 after a signal, with a handler still
\* in flight past the grace period and the cycles not having seen the cancel
C10_Witness ==
    /\ exited /\ exitCode = 0 /\ sigGo = "done"
    /\ InFlight # {}
    /\ shutdownCtxDone
    /\ writePc = "select" /\ readPc = "select"

\* C11: the exit status is not zero after a fatal startup error and after a
\* listener (bind or serve) error, and it is zero only after a shutdown that
\* a termination signal started.
C11_ExitCodes ==
    exited =>
        /\ mainPc = "fatal" => exitCode # 0
        /\ srvState = "failed" => exitCode # 0
        /\ exitCode = 0 => sigGo = "done"

\* NFS_SERVER and NFS_SHARE are set, TIMEOUT, UID and GID parse
RequiredValid == env.server /\ env.timeoutOk /\ env.uidOk /\ env.gidOk

\* WRITE_INTERVAL and READ_INTERVAL parse
IntervalsValid == env.readIntervalOk /\ env.writeIntervalOk

\* the listener is bound, a cycle is launched or a request is received
Started ==
    \/ srvState # "new" \/ srvGo # "off"
    \/ writePc # "off" \/ readPc # "off"
    \/ reqs # <<>>

\* C12 as stated: an unparsable WRITE_INTERVAL or READ_INTERVAL is a fatal
\* startup error like the others, so nothing starts with one.
C12_IntervalsAlwaysFatal ==
    Started => (RequiredValid /\ IntervalsValid)

\* C12, amended: a process that ended on a fatal startup error never bound
\* the listener and never launched a cycle, and nothing is started while
\* main is in its startup; the listener is bound and the cycles are launched
\* only with NFS_SERVER, NFS_SHARE, TIMEOUT, UID and GID valid and, when
\* SQLITE_STORAGE_PATH is set, with both intervals parsed and the store
\* opened; without SQLITE_STORAGE_PATH the intervals are not looked at.
C12_FatalBeforeStart ==
    /\ mainPc = "fatal" => (exited /\ exitCode = 1)
    /\ mainPc \in {"config", "notify", "sqlite", "fatal"} => ~Started
    /\ Started => RequiredValid
    /\ (Started /\ env.sqlite) => IntervalsValid
    /\ (writePc # "off" \/ readPc # "off") =>
          (env.sqlite /\ dbState # "none" /\ writePc # "off" /\ readPc # "off")
    /\ (env.sqlite /\ srvGo # "off") => (writePc # "off" /\ readPc # "off")
    /\ (~exited /\ mainPc # "config") => RequiredValid
    /\ (~exited /\ env.sqlite /\ mainPc \notin {"config", "notify", "sqlite"}) =>
          IntervalsValid

\* the process has ended in setupSqlite on an unparsable interval, with the
\* rest of the configuration valid
C12_Witness ==
    /\ mainPc = "fatal" /\ exited /\ exitCode = 1
    /\ RequiredValid /\ env.sqlite /\ ~env.writeIntervalOk /\ env.readIntervalOk

\* a step in which db.Exec returns an error: the insert ends with no new row
FailedInsert == writePc = "insert" /\ writePc' # "insert" /\ entries' = entries

\* a step in which the aggregate query returns an error
FailedQuery ==
    readPc = "query" /\ readPc' # "query" /\ lastRead'.kind = "read error"

\* a step in which the handler of request i returns with an error recorded
FailedRequest(i) == reqs[i].pc # "done" /\ reqs'[i].pc = "done" /\ reqs'[i].err # Nil

LifecycleState ==
    IF exited THEN "Stopped"
    ELSE IF ctxDone THEN "Draining"
    ELSE IF mainPc = "wait" THEN "Running"
    ELSE "Starting"

LifecycleRank(st) ==
    CASE st = "Starting" -> 0 [] st = "Running" -> 1
      [] st = "Draining" -> 2 [] st = "Stopped" -> 3

\* main's positions in the order of its code
MainRank(pc) ==
    CASE pc = "config" -> 0 [] pc = "notify" -> 1 [] pc = "sqlite" -> 2
      [] pc = "serve" -> 3 [] pc = "wait" -> 4 [] pc = "shutdown" -> 5
      [] pc = "deferred" -> 6 [] pc = "return" -> 7 [] pc = "exit" -> 8
      [] pc = "fatal" -> 9

\* srv.Shutdown has been called
ShutdownStarted == mainPc \in {"shutdown", "deferred", "return", "exit"}

\* the signal goroutine takes a signal from sigCh / ListenAndServe returns
\* an error other than ErrServerClosed
SignalTaken == sigGo = "wait" /\ sigGo' = "done" /\ sigCh' = sigCh - 1
ListenerFails == srvState # "failed" /\ srvState' = "failed"

\* C14: the lifecycle state never moves back and main never goes back in
\* its code; the context becomes done only in a step in which the signal
\* goroutine takes a termination signal or the listener reports an error,
\* and once done it stays done whatever follows (a second signal, a
\* listener error, the deferred cancel); srv.Shutdown is called and the
\* listener closed only with the context done; a process that has exited
\* stays as it is.
C14_ForwardOnly ==
    /\ [](ShutdownStarted => ctxDone)
    /\ [](srvState = "closed" => (ctxDone /\ ShutdownStarted))
    /\ [][/\ LifecycleRank(LifecycleState') >= LifecycleRank(LifecycleState)
          /\ MainRank(mainPc') >= MainRank(mainPc)
          /\ ctxDone => ctxDone'
          /\ (~ctxDone /\ ctxDone') => (SignalTaken \/ ListenerFails)
          /\ exited => (exited' /\ exitCode' = exitCode /\ mainPc' = mainPc)]_vars

\* the process has stopped after a signal was taken and the listener
\* reported an error, with a second signal left in the channel
C14_Witness ==
    /\ exited /\ exitCode = 0 /\ mainPc = "exit"
    /\ sigGo = "done" /\ sigCh = 1 /\ srvState = "failed"

\* C15: with the context done, each cycle ends at its next check: a cycle
\* that leaves its select leaves it for its exit, so the only store
\* operation it completes after the cancellation is one it was already in.
C15_EndsWithinOneTick ==
    [][ctxDone =>
          /\ (writePc = "select" /\ writePc' # "select") => writePc' = "exit"
          /\ (readPc = "select" /\ readPc' # "select") => readPc' = "exit"]_vars

ListRequestsDone == {i \in Done : reqs[i].ep = "/list"}

CompleteValues == {Format(t) : t \in Times}

\* C17: every /read-storage that succeeds returns a complete written value,
\* never an empty or partial one, also when it overlaps a /write-storage:
\* its message is the prefix followed by a whole timestamp.
C17_AtomicOverwrite ==
    \A i \in Done :
        (reqs[i].ep = "/read-storage" /\ reqs[i].err = Nil) =>
            /\ Head(reqs[i].Message) = "last time written to store: "
            /\ Tail(reqs[i].Message) \in CompleteValues

\* a step in which db.Exec returns without an error
SuccessfulInsert == writePc = "insert" /\ writePc' = "sleep" /\ nWriteOK' = nWriteOK + 1

\* C18: the table changes only in a step in which the write cycle's insert
\* succeeds, and then by exactly one record, added after the existing ones
\* with a new identifier and this instance's label, every existing record
\* staying as it was; a failed insert, every step of the read cycle, of a
\* request and of main (the shutdown and the close of the handle included)
\* leaves the table as it is.
C18_AppendOnly ==
    [][/\ entries' # entries => SuccessfulInsert
       /\ SuccessfulInsert =>
             /\ Len(entries') = Len(entries) + 1
             /\ \A k \in 1..Len(entries) : entries'[k] = entries[k]
             /\ entries'[Len(entries')].pod = podNameEnv
             /\ \A k \in 1..Len(entries) : entries'[Len(entries')].id # entries[k].id
       /\ (writePc = "insert" /\ writePc' # "insert" /\ ~SuccessfulInsert) =>
             entries' = entries
       /\ (readPc' # readPc \/ lastRead' # lastRead) => entries' = entries
       /\ reqs' # reqs => entries' = entries
       /\ (mainPc' # mainPc \/ dbState' # dbState \/ exited' # exited) =>
             entries' = entries]_vars

\* the process has exited after the shutdown sequence with the handle
\* closed; a request was served, a query was logged, one insert failed and
\* one added its record after the record of an earlier run
C18_Witness ==
    /\ exited /\ exitCode = 0 /\ dbState = "closed"
    /\ Len(reqs) = 1 /\ reqs[1].pc = "done"
    /\ lastRead.kind = "successful read"
    /\ writeTicks = 2 /\ nWriteOK = 1
    /\ Len(entries) = 2 /\ entries[1] = OldRow /\ entries[2].pod = podNameEnv

\* C19: a query on a table with no record takes the error path: the step in
\* which it returns logs a read error and no aggregate, and the read cycle
\* is back at its select; every aggregate logged has a count of at least 1
\* and the fields of a record.
C19_EmptyStoreReadError ==
    /\ [](lastRead.kind = "successful read" =>
             (lastRead.count >= 1 /\ lastRead.lastPod # <<>>
                /\ lastRead.lastTimestamp # <<>> /\ lastRead.lastPayload # <<>>))
    /\ [][(readPc = "query" /\ readPc' # "query" /\ entries = <<>>) =>
             (lastRead'.kind = "read error" /\ readPc' = "select")]_vars

\* a read error is logged while the store is open and empty, every insert
\* so far having failed, and the read cycle has gone on to another tick
C19_Witness ==
    /\ Alive /\ ~ctxDone /\ dbState = "open"
    /\ entries = <<>> /\ writeTicks = 2 /\ nWriteOK = 0
    /\ lastRead.kind = "read error" /\ readPc = "query"

\* C20: the handle of an opened store is closed only in main's deferred
\* calls, in a step taken with the context done and srv.Shutdown returned;
\* it is never closed in Running or Starting, a closed handle is not opened
\* again, and a startup that fails after the open exits without closing.
C20_CloseAfterShutdown ==
    /\ [](dbState = "closed" => (ctxDone /\ mainPc \in {"return", "exit"}))
    /\ [](LifecycleState \in {"Starting", "Running"} => dbState # "closed")
    /\ [][/\ (dbState # "closed" /\ dbState' = "closed") =>
               (dbState = "open" /\ ctxDone /\ mainPc = "deferred")
          /\ dbState = "closed" => dbState' = "closed"]_vars

\* the handle is closed and the process has not exited, while an insert
\* that began before the close is still to return
C20_Witness ==
    /\ Alive /\ dbState = "closed" /\ mainPc = "return"
    /\ writePc = "insert" /\ readPc = "query"

====
